---- MODULE Spec2Model ----
(***************************************************************************)
(* dboom: an HTTP load generator built on libdill coroutines.              *)
(* main() validates -n/-c, creates three rendezvous channels, starts the   *)
(* stats() coroutine and nconcurr boom() coroutines, joins the boom()      *)
(* coroutines on done_ch, then runs the stop/ack handshake with stats()    *)
(* on stop_ch, closes every handle and exits.                              *)
(*                                                                         *)
(* C's 32-bit unsigned int does not fit TLC's integers, so an unsigned int *)
(* is the pair <<hi, lo>> of its 16-bit halves; a C int is a TLC integer.  *)
(***************************************************************************)
EXTENDS Integers, Sequences, FiniteSets, TLC

\* ------------------------------------------------------------ bounds
\* largest value given to -n and -c
MaxArg == 3
\* largest number of requests of a modelled run (coroutines * iterations)
MaxTotal == 3
\* largest number of failing channel operations injected in one run
MaxFaults == 1

\* ------------------------------------------------------------ program constants
DEFAULT_REQUESTS == 10
DEFAULT_CONCURR == 5
EXIT_SUCCESS == 0
EXIT_FAILURE == 1

\* ------------------------------------------------------------ machine integers
Half == 256 * 256
IntMax == (Half \div 2 - 1) * Half + (Half - 1)

\* conversion of a C int to unsigned int (value modulo 2^32)
ToUnsigned(x) ==
    IF x >= 0 THEN <<x \div Half, x % Half>>
    ELSE <<Half - 1 - ((-x - 1) \div Half), Half - 1 - ((-x - 1) % Half)>>

\* conversion of an unsigned int to a C int (two's complement)
ToInt(u) ==
    IF u[1] >= Half \div 2 THEN (u[1] - Half) * Half + u[2]
    ELSE u[1] * Half + u[2]

UZero == <<0, 0>>
UIsZero(u) == u = UZero
ULess(a, b) == a[1] < b[1] \/ (a[1] = b[1] /\ a[2] < b[2])

\* unsigned addition, wrapping modulo 2^32
UAdd(a, b) ==
    LET lo == a[2] + b[2]
        hi == a[1] + b[1] + (lo \div Half)
    IN  <<hi % Half, lo % Half>>

\* unsigned division by a divisor below 2^15 (long division on the halves)
UDivSmall(a, d) ==
    LET r == a[1] % d
    IN  <<a[1] \div d, (r * Half + a[2]) \div d>>

\* unsigned division a / b of two unsigned ints
UDiv(a, b) ==
    IF ULess(a, b) THEN UZero
    ELSE IF a = b THEN <<0, 1>>
    ELSE UDivSmall(a, b[2])

\* ------------------------------------------------------------ inputs
\* an option's optarg: NULL when the option is absent, else <<x>> where x is
\* what atoi() yields for the string
NULL == <<>>
atoi(a) == a[1]
ArgInts == (-1) .. MaxArg
ArgVals == {<<x>> : x \in ArgInts} \cup {NULL}

\* the results MakeRequest() can store in *rs when it returns 0
Results ==
    { [http_code |-> 200, tm |-> 100],
      [http_code |-> 404, tm |-> 100],
      [http_code |-> 200, tm |-> IntMax] }

VARIABLES
    argN, argC, verbose,      \* optarg of -n, of -c; whether -v was given
    nreqs, nconcurr,          \* main: unsigned int nreqs, nconcurr
    mpc, mi, exitcode,        \* main: position, loop variable i, <<status>> once exited
    chans,                    \* whether done_ch, stats_ch, stop_ch exist
    wpc, wi, wrs,             \* boom(): position, loop variable i, rs
    spc, nrequests, total,    \* stats(): position, nrequests, total
    stop, rs,                 \* stats(): stop, rs
    echoed, avgline,          \* stats(): verbose lines printed, summary line
    made, okcnt, oksum,       \* history: MakeRequest calls per worker;
                              \*   number and exact sum of the successes
    recvd,                    \* history: results handed over on stats_ch
    xfer,                     \* history: completed rendezvous per message kind
    closed,                   \* handles main has closed
    faults                    \* number of channel operations that failed

cfgv == <<argN, argC, verbose>>
mainv == <<nreqs, nconcurr, mpc, mi, exitcode, chans, closed>>
boomv == <<wpc, wi, wrs>>
statsv == <<spc, nrequests, total, stop, rs, echoed, avgline>>
histv == <<made, okcnt, oksum, recvd, xfer, faults>>
vars == <<cfgv, mainv, boomv, statsv, histv>>

Workers == 1 .. MaxTotal

\* ------------------------------------------------------------ helpers of main
getRequests(requests) ==
    IF requests = NULL THEN ToUnsigned(DEFAULT_REQUESTS) ELSE ToUnsigned(atoi(requests))

getConcurrentReqs(concurr) ==
    IF concurr = NULL THEN ToUnsigned(DEFAULT_CONCURR) ELSE ToUnsigned(atoi(concurr))

\* the two checks of main that end in exit(EXIT_FAILURE)
Rejected(n, c) == (UIsZero(n) \/ UIsZero(c)) \/ ULess(n, c)

\* a share that rounds up instead of down
ShareRoundedUp(n, c) == UDiv(UAdd(n, UAdd(c, ToUnsigned(-1))), c)

\* nreqs/nconcurr, the second argument of boom()
Share(n, c) == UDiv(n, c)

\* boom(): for(int i = nreqs; i > 0; --i)
BoomInit(n) == ToInt(n)
BoomMore(i) == i > 0

\* main: for(int i = 0; i < nconcurr; ++i)
SpawnMore(i, c) == ULess(ToUnsigned(i), c)

\* main: for(int i = nconcurr; i > 0; --i)
\* a barrier that waits for one signal more than there are coroutines
BarrierInitOneMore(c) == ToInt(c) + 1
\* a barrier that waits for one signal fewer than there are coroutines
BarrierInitOneFewer(c) == ToInt(c) - 1
\* a main that does not wait for the coroutines before it sends stop
BarrierInitNone(c) == 0
BarrierInit(c) == ToInt(c)
\* a barrier that stops waiting one signal early
BarrierMoreOffByOne(i) == i > 1
BarrierMore(i) == i > 0

\* the runs the bounds admit: those main rejects, and those whose coroutines
\* and requests number at most MaxTotal
Modelled(n, c) ==
    IF UIsZero(n) \/ UIsZero(c) \/ ULess(n, c) THEN TRUE
    ELSE /\ ULess(c, ToUnsigned(MaxTotal + 1))
         /\ ToInt(UDiv(n, c)) <= MaxTotal
         /\ ToInt(c) * ToInt(UDiv(n, c)) <= MaxTotal

reqstats_new == [http_code |-> 0, tm |-> 0]

\* stats()'s rs is uninitialized until choose() fills it and is not read
\* before that; it starts here as a fixed value
Init ==
    /\ argN \in ArgVals
    /\ argC \in ArgVals
    /\ Modelled(getRequests(argN), getConcurrentReqs(argC))
    /\ verbose \in BOOLEAN
    /\ nreqs = UZero
    /\ nconcurr = UZero
    /\ mpc = "args"
    /\ mi = 0
    /\ exitcode = <<>>
    /\ chans = FALSE
    /\ wpc = [w \in Workers |-> "none"]
    /\ wi = [w \in Workers |-> 0]
    /\ wrs = [w \in Workers |-> reqstats_new]
    /\ spc = "none"
    /\ nrequests = 0
    /\ total = UZero
    /\ stop = 0
    /\ rs = reqstats_new
    /\ echoed = <<>>
    /\ avgline = <<>>
    /\ made = [w \in Workers |-> 0]
    /\ okcnt = 0
    /\ oksum = UZero
    /\ recvd = <<>>
    /\ xfer = [done |-> 0, stats |-> 0, stop |-> 0, ack |-> 0]
    /\ closed = {}
    /\ faults = 0

Alive == mpc # "exited"

\* ------------------------------------------------------------ main
\* lines 59-76: read -n and -c, reject nreqs == 0, nconcurr == 0, nreqs < nconcurr
Validate ==
    /\ mpc = "args"
    /\ nreqs' = getRequests(argN)
    /\ nconcurr' = getConcurrentReqs(argC)
    /\ IF Rejected(nreqs', nconcurr')
       THEN mpc' = "exited" /\ exitcode' = <<EXIT_FAILURE>>
       ELSE mpc' = "chmake" /\ UNCHANGED exitcode
    /\ UNCHANGED <<cfgv, mi, chans, closed, boomv, statsv, histv>>

\* a main that starts the boom() coroutines without starting stats()
AfterChmakeNoStats == "go_boom"

\* lines 98-103: after the channels are made, stats() is started first
AfterChmake == "go_stats"

\* lines 86-96: the three chmake() calls
Chmake ==
    /\ mpc = "chmake"
    /\ chans' = TRUE
    /\ mpc' = AfterChmake
    /\ UNCHANGED <<cfgv, nreqs, nconcurr, mi, exitcode, closed, boomv, statsv, histv>>

\* line 103: go(stats(...)); stats() runs up to its first choose()
GoStats ==
    /\ mpc = "go_stats"
    /\ spc' = "choose"
    /\ mpc' = "go_boom"
    /\ mi' = 0
    /\ UNCHANGED <<cfgv, nreqs, nconcurr, exitcode, chans, closed, boomv,
                   nrequests, total, stop, rs, echoed, avgline, histv>>

\* lines 114-120: one iteration of the launch loop
GoBoom ==
    /\ mpc = "go_boom"
    /\ LET w == mi + 1
           n == BoomInit(Share(nreqs, nconcurr))
       IN  /\ wi' = [wi EXCEPT ![w] = n]
           /\ wpc' = [wpc EXCEPT ![w] = IF BoomMore(n) THEN "request" ELSE "send_done"]
           /\ mi' = mi + 1
           /\ mpc' = IF SpawnMore(mi + 1, nconcurr) THEN "go_boom" ELSE "join"
    /\ UNCHANGED <<cfgv, nreqs, nconcurr, exitcode, chans, closed, wrs, statsv, histv>>

\* lines 122-124: entry of the loop that waits for the boom() coroutines
Join ==
    /\ mpc = "join"
    /\ mi' = BarrierInit(nconcurr)
    /\ mpc' = IF BarrierMore(mi') THEN "barrier" ELSE "send_stop"
    /\ UNCHANGED <<cfgv, nreqs, nconcurr, exitcode, chans, closed, boomv, statsv, histv>>

\* line 125 with line 172: chrecv(done_ch) meets a boom()'s chsend(done_ch)
RecvDone(w) ==
    /\ Alive
    /\ mpc = "barrier"
    /\ wpc[w] = "send_done"
    /\ wpc' = [wpc EXCEPT ![w] = "end"]
    /\ mi' = mi - 1
    /\ mpc' = IF BarrierMore(mi - 1) THEN "barrier" ELSE "send_stop"
    /\ xfer' = [xfer EXCEPT !.done = @ + 1]
    /\ UNCHANGED <<cfgv, nreqs, nconcurr, exitcode, chans, closed, wi, wrs, statsv,
                   made, okcnt, oksum, recvd, faults>>

\* a main that starts the teardown without waiting for the acknowledgment
AfterStopNoWait == "hclose_boom"

\* the position of main after chsend(stop_ch) (line 136)
AfterStop == "recv_ack"

\* line 133 with line 190: chsend(stop_ch) meets clause 0 of stats()'s choose()
SendStop ==
    /\ mpc = "send_stop"
    /\ spc = "choose"
    /\ stop' = 1
    /\ spc' = "final"
    /\ mpc' = AfterStop
    /\ xfer' = [xfer EXCEPT !.stop = @ + 1]
    /\ UNCHANGED <<cfgv, nreqs, nconcurr, mi, exitcode, chans, closed, boomv,
                   nrequests, total, rs, echoed, avgline,
                   made, okcnt, oksum, recvd, faults>>

\* line 136 with line 208: chrecv(stop_ch) meets stats()'s chsend(stop_ch)
RecvAck ==
    /\ mpc = "recv_ack"
    /\ spc = "send_ack"
    /\ spc' = "end"
    /\ mpc' = "hclose_boom"
    /\ xfer' = [xfer EXCEPT !.ack = @ + 1]
    /\ UNCHANGED <<cfgv, nreqs, nconcurr, mi, exitcode, chans, closed, boomv,
                   nrequests, total, stop, rs, echoed, avgline,
                   made, okcnt, oksum, recvd, faults>>

\* ------------------------------------------------------------ boom()
\* a boom() that publishes whatever MakeRequest() returns
PublishedAlways(ret) == TRUE

\* line 165: the result is published when MakeRequest() returns 0
Published(ret) == ret = 0

\* exact (unbounded) sum: <<hi, lo>> with lo < 2^16 and hi not reduced
BigAdd(a, x) ==
    LET lo == a[2] + (x % Half)
    IN  <<a[1] + (x \div Half) + (lo \div Half), lo % Half>>

\* the next position of a boom() whose loop variable becomes i
BoomNext(i) == IF BoomMore(i) THEN "request" ELSE "send_done"

\* a boom() that leaves its loop when a request or a send fails
AfterFailureBreak(i) == "send_done"

\* a boom() that returns when a request fails, without its completion signal
AfterFailureQuit(i) == "end"

\* lines 163-169: after a failed MakeRequest() or chsend(stats_ch) the loop
\* goes on with --i
AfterFailure(i) == BoomNext(i - 1)

\* lines 164-165: one MakeRequest() call; ret = 0 with a result, or a failure
MakeRequest(w) ==
    /\ Alive
    /\ wpc[w] = "request"
    /\ \E ret \in {0, -1} :
       \E r \in (IF ret = 0 THEN Results ELSE {reqstats_new}) :
          /\ made' = [made EXCEPT ![w] = @ + 1]
          /\ okcnt' = IF ret = 0 THEN okcnt + 1 ELSE okcnt
          /\ oksum' = IF ret = 0 THEN BigAdd(oksum, r.tm) ELSE oksum
          /\ wrs' = [wrs EXCEPT ![w] = r]
          /\ IF Published(ret)
             THEN wpc' = [wpc EXCEPT ![w] = "send_stats"] /\ UNCHANGED wi
             ELSE /\ wi' = [wi EXCEPT ![w] = @ - 1]
                  /\ wpc' = [wpc EXCEPT ![w] = AfterFailure(wi[w])]
    /\ UNCHANGED <<cfgv, mainv, statsv, recvd, xfer, faults>>

\* ------------------------------------------------------------ stats()
\* an echo that puts the newest line first
EchoNewestFirst(out, r) == <<<<r.http_code, r.tm>>>> \o out

\* line 200: the line printed for one result in verbose mode
Echo(out, r) == Append(out, <<r.http_code, r.tm>>)

\* line 198: total += rs.tm, in unsigned int
AddTotal(t, tm) == UAdd(t, ToUnsigned(tm))

\* line 203: whether the summary line is printed
PrintsAvg(n) == n > 0

\* line 205: "%d requests: %d ms" of nrequests and total/nrequests
AvgLine(n, t) == <<n, ToInt(UDiv(t, ToUnsigned(n)))>>

\* line 190 with line 166: clause 1 of choose() meets a boom()'s chsend(stats_ch)
StatsRecv(w) ==
    /\ Alive
    /\ spc = "choose"
    /\ wpc[w] = "send_stats"
    /\ rs' = wrs[w]
    /\ spc' = "handle"
    /\ recvd' = Append(recvd, wrs[w])
    /\ xfer' = [xfer EXCEPT !.stats = @ + 1]
    /\ wi' = [wi EXCEPT ![w] = @ - 1]
    /\ wpc' = [wpc EXCEPT ![w] = BoomNext(wi[w] - 1)]
    /\ UNCHANGED <<cfgv, mainv, wrs, nrequests, total, stop, echoed, avgline,
                   made, okcnt, oksum, faults>>

\* lines 195-201: the branch rc == 1
StatsHandle ==
    /\ Alive
    /\ spc = "handle"
    /\ nrequests' = nrequests + 1
    /\ total' = AddTotal(total, rs.tm)
    /\ echoed' = IF verbose THEN Echo(echoed, rs) ELSE echoed
    /\ spc' = "choose"
    /\ UNCHANGED <<cfgv, mainv, boomv, stop, rs, avgline, histv>>

\* a stats() whose chsend(stop_ch) is inside the if of line 203
AfterFinalOnlyWithSummary(n) == IF n > 0 THEN "send_ack" ELSE "end"

\* lines 203-208: the summary is one statement under the if; the chsend(stop_ch)
\* of line 208 follows it whatever nrequests is
AfterFinal(n) == "send_ack"

\* lines 203-205: after the loop
StatsFinal ==
    /\ Alive
    /\ spc = "final"
    /\ avgline' = IF PrintsAvg(nrequests) THEN AvgLine(nrequests, total) ELSE avgline
    /\ spc' = AfterFinal(nrequests)
    /\ UNCHANGED <<cfgv, mainv, boomv, nrequests, total, stop, rs, echoed, histv>>

\* ------------------------------------------------------------ teardown
\* lines 142-143: hclose() of every boom() handle
HcloseBoom ==
    /\ mpc = "hclose_boom"
    /\ closed' = closed \cup {"boom"}
    /\ mpc' = "hclose_stats"
    /\ UNCHANGED <<cfgv, nreqs, nconcurr, mi, exitcode, chans, boomv, statsv, histv>>

\* line 144: hclose(stats_cor); a stats() that has not returned is cancelled:
\* its pending choose()/chsend() fails and it runs to its end inside hclose()
HcloseStats ==
    /\ mpc = "hclose_stats"
    /\ closed' = closed \cup {"stats"}
    /\ mpc' = "hclose_ch"
    /\ spc' = "end"
    /\ LET n == IF spc = "handle" THEN nrequests + 1 ELSE nrequests
           t == IF spc = "handle" THEN AddTotal(total, rs.tm) ELSE total
       IN  /\ nrequests' = n
           /\ total' = t
           /\ echoed' = IF spc = "handle" /\ verbose THEN Echo(echoed, rs) ELSE echoed
           /\ avgline' = IF spc \in {"handle", "choose", "final"} /\ PrintsAvg(n)
                         THEN AvgLine(n, t) ELSE avgline
    /\ UNCHANGED <<cfgv, nreqs, nconcurr, mi, exitcode, chans, boomv, stop, rs, histv>>

\* lines 146-148: hclose() of done_ch, stats_ch, stop_ch
HcloseChans ==
    /\ mpc = "hclose_ch"
    /\ closed' = closed \cup {"done_ch", "stats_ch", "stop_ch"}
    /\ chans' = FALSE
    /\ mpc' = "exit"
    /\ UNCHANGED <<cfgv, nreqs, nconcurr, mi, exitcode, boomv, statsv, histv>>

\* lines 150-156: free, print the run time, exit(EXIT_SUCCESS)
Exit ==
    /\ mpc = "exit"
    /\ exitcode' = <<EXIT_SUCCESS>>
    /\ mpc' = "exited"
    /\ UNCHANGED <<cfgv, nreqs, nconcurr, mi, chans, closed, boomv, statsv, histv>>

\* ------------------------------------------------------------ specification
\* every channel operation succeeds, as libdill's do on valid handles with
\* deadline -1 while no coroutine is cancelled
Next ==
    \/ Validate
    \/ Chmake
    \/ GoStats
    \/ GoBoom
    \/ Join
    \/ \E w \in Workers : RecvDone(w)
    \/ SendStop
    \/ RecvAck
    \/ \E w \in Workers : MakeRequest(w)
    \/ \E w \in Workers : StatsRecv(w)
    \/ StatsHandle
    \/ StatsFinal
    \/ HcloseBoom
    \/ HcloseStats
    \/ HcloseChans
    \/ Exit

Spec == Init /\ [][Next]_vars

\* the scheduler runs a coroutine that can run, and a rendezvous whose two
\* sides are present completes
FairSpec == Spec /\ WF_vars(Next)

\* ------------------------------------------------------------ failing channel operations
\* Each action is the rc != 0 branch of one chsend()/chrecv()/choose() call.

\* lines 125-129: chrecv(done_ch) fails; perror and exit(EXIT_FAILURE)
RecvDoneFail ==
    /\ mpc = "barrier"
    /\ faults < MaxFaults
    /\ faults' = faults + 1
    /\ mpc' = "exited"
    /\ exitcode' = <<EXIT_FAILURE>>
    /\ UNCHANGED <<cfgv, nreqs, nconcurr, mi, chans, closed, boomv, statsv,
                   made, okcnt, oksum, recvd, xfer>>

\* lines 133-134: chsend(stop_ch) fails; perror, main goes on
SendStopFail ==
    /\ mpc = "send_stop"
    /\ faults < MaxFaults
    /\ faults' = faults + 1
    /\ mpc' = AfterStop
    /\ UNCHANGED <<cfgv, nreqs, nconcurr, mi, exitcode, chans, closed, boomv, statsv,
                   made, okcnt, oksum, recvd, xfer>>

\* lines 136-137: chrecv(stop_ch) fails; perror, main goes on
RecvAckFail ==
    /\ mpc = "recv_ack"
    /\ faults < MaxFaults
    /\ faults' = faults + 1
    /\ mpc' = "hclose_boom"
    /\ UNCHANGED <<cfgv, nreqs, nconcurr, mi, exitcode, chans, closed, boomv, statsv,
                   made, okcnt, oksum, recvd, xfer>>

\* lines 166-167: chsend(stats_ch) fails; perror, the loop goes on
SendStatsFail(w) ==
    /\ Alive
    /\ wpc[w] = "send_stats"
    /\ faults < MaxFaults
    /\ faults' = faults + 1
    /\ wi' = [wi EXCEPT ![w] = @ - 1]
    /\ wpc' = [wpc EXCEPT ![w] = AfterFailure(wi[w])]
    /\ UNCHANGED <<cfgv, mainv, wrs, statsv, made, okcnt, oksum, recvd, xfer>>

\* lines 172-173: chsend(done_ch) fails; perror, boom() returns
SendDoneFail(w) ==
    /\ Alive
    /\ wpc[w] = "send_done"
    /\ faults < MaxFaults
    /\ faults' = faults + 1
    /\ wpc' = [wpc EXCEPT ![w] = "end"]
    /\ UNCHANGED <<cfgv, mainv, wi, wrs, statsv, made, okcnt, oksum, recvd, xfer>>

\* lines 190-194: choose() fails; perror, break with stop still 0
ChooseFail ==
    /\ Alive
    /\ spc = "choose"
    /\ faults < MaxFaults
    /\ faults' = faults + 1
    /\ spc' = "final"
    /\ UNCHANGED <<cfgv, mainv, boomv, nrequests, total, stop, rs, echoed, avgline,
                   made, okcnt, oksum, recvd, xfer>>

\* lines 208-209: chsend(stop_ch) fails; perror, stats() returns
SendAckFail ==
    /\ Alive
    /\ spc = "send_ack"
    /\ faults < MaxFaults
    /\ faults' = faults + 1
    /\ spc' = "end"
    /\ UNCHANGED <<cfgv, mainv, boomv, nrequests, total, stop, rs, echoed, avgline,
                   made, okcnt, oksum, recvd, xfer>>

FaultNext ==
    \/ Next
    \/ RecvDoneFail
    \/ SendStopFail
    \/ RecvAckFail
    \/ \E w \in Workers : SendStatsFail(w)
    \/ \E w \in Workers : SendDoneFail(w)
    \/ ChooseFail
    \/ SendAckFail

FaultSpec == Init /\ [][FaultNext]_vars

\* ------------------------------------------------------------ properties
\* N and C as the user gave them: the option's integer, or the default
reqN == IF argN = NULL THEN DEFAULT_REQUESTS ELSE atoi(argN)
reqC == IF argC = NULL THEN DEFAULT_CONCURR ELSE atoi(argC)
ValidConfig == reqN > 0 /\ reqC > 0 /\ reqC <= reqN
InvalidConfig == reqN = 0 \/ reqC = 0 \/ reqN < reqC

RECURSIVE SumTo(_, _)
SumTo(f, n) == IF n = 0 THEN 0 ELSE f[n] + SumTo(f, n - 1)
Attempted == SumTo(made, MaxTotal)

ExitedOk == mpc = "exited" /\ exitcode = <<EXIT_SUCCESS>>
PastBarrier == mpc \in {"send_stop", "recv_ack", "hclose_boom", "hclose_stats",
                        "hclose_ch", "exit"} \/ ExitedOk
StatsStopped == spc \in {"send_ack", "end"}

\* C1: when a run of a valid configuration (N > 0, C > 0, C <= N) has finished,
\* each of the C boom() coroutines has called MakeRequest exactly floor(N/C)
\* times, no other call was made, and the total is C * floor(N/C).
C1_AttemptsAreShareTimesWorkers ==
    (ValidConfig /\ ExitedOk) =>
        /\ \A w \in Workers : made[w] = IF w <= reqC THEN reqN \div reqC ELSE 0
        /\ Attempted = reqC * (reqN \div reqC)

\* a finished run of N = 3, C = 2: one request each, the third never made
C1_Witness ==
    /\ ExitedOk
    /\ reqN = 3 /\ reqC = 2
    /\ made[1] = 1 /\ made[2] = 1 /\ Attempted = 2

\* C2: main is past the join barrier only when exactly C completion signals
\* have been received, and it waits in the barrier only while fewer than C
\* have been received.
C2_BarrierCountsExactlyC ==
    ValidConfig =>
        /\ PastBarrier => xfer.done = reqC
        /\ xfer.stop + xfer.ack > 0 => xfer.done = reqC
        /\ mpc = "barrier" => xfer.done < reqC

\* main about to send stop after three boom() coroutines signalled
C2_Witness ==
    /\ mpc = "send_stop"
    /\ reqC = 3
    /\ xfer.done = 3
    /\ xfer.stop = 0

\* floor(a / k) of an exact sum a = <<hi, lo>>, as <<hi, lo>>
BigDiv(a, k) == <<a[1] \div k, ((a[1] % k) * Half + a[2]) \div k>>
\* whether the C int x is the number <<hi, lo>>
IntIs(x, q) == q[1] < Half \div 2 /\ x = q[1] * Half + q[2]

\* C3: if k > 0 requests succeed, the average stats() reports when it stops
\* is floor((l_1 + ... + l_k) / k).
C3_AverageIsFloorOfMean ==
    (StatsStopped /\ okcnt > 0) =>
        /\ avgline # <<>>
        /\ IntIs(avgline[2], BigDiv(oksum, okcnt))

\* C4: when stats() stops, nrequests is the number of MakeRequest calls that
\* succeeded, each handed over exactly once; and if every attempted request
\* succeeded with one latency L, the count is C * floor(N/C), the reported
\* average is L and the exit code is 0.
C4_EveryResultCountedOnce ==
    /\ StatsStopped =>
          /\ nrequests = okcnt
          /\ Len(recvd) = okcnt
          /\ xfer.stats = okcnt
    /\ (ValidConfig /\ StatsStopped /\ okcnt > 0 /\ okcnt = Attempted
          /\ \A i \in 1 .. Len(recvd) : recvd[i].tm = recvd[1].tm) =>
          /\ nrequests = reqC * (reqN \div reqC)
          /\ avgline = <<nrequests, recvd[1].tm>>
    /\ (ValidConfig /\ mpc = "exited") => exitcode = <<EXIT_SUCCESS>>

\* every boom() coroutine has been started and has left its request loop
LoopsOver ==
    /\ mpc \notin {"args", "chmake", "go_stats", "go_boom"}
    /\ \A w \in Workers : wpc[w] \in {"none", "send_done", "end"}
HandshakeOverNoSummary ==
    /\ xfer.stop = 1 /\ xfer.ack = 1
    /\ spc = "end"
    /\ mpc \notin {"send_stop", "recv_ack"}
    /\ nrequests = 0
    /\ avgline = <<>>

\* C5: if every attempted request failed, stats() stops with nrequests = 0,
\* prints no summary line, and the stop/ack handshake completes: stats()
\* sends the acknowledgment and main receives it.
C5_AllFailedStillHandshakes ==
    (ValidConfig /\ LoopsOver /\ okcnt = 0) ~> HandshakeOverNoSummary

\* a run of three failed requests after the handshake
C5_Witness ==
    /\ Attempted = 3 /\ okcnt = 0
    /\ HandshakeOverNoSummary

\* the lines verbose mode prints for the results r[1..n]
LinesOf(r, n) == [i \in 1 .. n |-> <<r[i].http_code, r[i].tm>>]

\* C6: in verbose mode the lines echoed are, in order, the results received
\* on stats_ch, one line per result with that result's status and latency,
\* and when stats() stops there is one line per successful request.
C6_EchoFollowsArrival ==
    verbose =>
        /\ nrequests <= Len(recvd)
        /\ echoed = LinesOf(recvd, nrequests)
        /\ spc # "handle" => nrequests = Len(recvd)
        /\ StatsStopped => Len(echoed) = okcnt

\* three different results from three coroutines, echoed in arrival order
C6_Witness ==
    /\ verbose /\ StatsStopped
    /\ reqC = 3
    /\ Len(echoed) = 3
    /\ echoed[1] # echoed[2] /\ echoed[2] # echoed[3] /\ echoed[1] # echoed[3]
    /\ echoed = LinesOf(recvd, 3)

NothingStarted ==
    /\ ~chans
    /\ closed = {}
    /\ spc = "none"
    /\ \A w \in Workers : wpc[w] = "none" /\ made[w] = 0
    /\ xfer = [done |-> 0, stats |-> 0, stop |-> 0, ack |-> 0]

\* C7: a configuration with N = 0, C = 0 or N < C is rejected with a non-zero
\* exit before any channel exists and before stats() or any boom() is
\* started; no request is made.
C7_InvalidConfigRejected ==
    InvalidConfig =>
        /\ mpc \in {"args", "exited"}
        /\ mpc = "exited" => exitcode = <<EXIT_FAILURE>>
        /\ NothingStarted

Terminated ==
    /\ ExitedOk
    /\ \A w \in Workers : wpc[w] = IF w <= reqC THEN "end" ELSE "none"
    /\ spc = "end"
    /\ xfer = [done |-> reqC, stats |-> okcnt, stop |-> 1, ack |-> 1]
    /\ okcnt > 0 => avgline # <<>>

\* C8: for every valid configuration, with every MakeRequest call returning,
\* no channel operation failing and fair scheduling, the run terminates:
\* every boom() has ended, the handshake is complete, main has exited with
\* code 0, and a summary line exists if a request succeeded.  In particular
\* no state before that exit is a deadlock.
C8_RunTerminates == ValidConfig => <>Terminated

\* a finished run in which one request failed and two succeeded
C8_Witness ==
    /\ Terminated
    /\ Attempted = 3 /\ okcnt = 2
    /\ avgline # <<>>

\* C9: a failed channel operation ends the process at once with a non-zero
\* exit: whenever a channel operation has failed, the process has exited and
\* its status is EXIT_FAILURE.
C9_ChannelFailureIsFatal ==
    faults > 0 => (mpc = "exited" /\ exitcode = <<EXIT_FAILURE>>)

AllHandles == {"boom", "stats", "done_ch", "stats_ch", "stop_ch"}

\* C10: main sends the stop request once, and only after the join barrier;
\* it then waits for the acknowledgment; and it closes the boom() handles,
\* the stats() handle and the three channels only after the acknowledgment
\* was received, when stats() has left its loop and printed its summary.
C10_StopThenAckThenClose ==
    /\ xfer.stop <= 1
    /\ xfer.stop = 1 => (xfer.done = ToInt(nconcurr) /\ mpc \notin {"barrier", "send_stop"})
    /\ mpc = "recv_ack" => (xfer.stop = 1 /\ xfer.ack = 0 /\ closed = {})
    /\ xfer.ack = 1 => xfer.stop = 1
    /\ closed # {} =>
          /\ xfer.ack = 1
          /\ spc = "end"
          /\ stop = 1
          /\ nrequests > 0 => avgline # <<>>
    /\ ExitedOk => closed = AllHandles

\* teardown finished after a run that printed a summary
C10_Witness ==
    /\ closed = AllHandles
    /\ xfer.stop = 1 /\ xfer.ack = 1
    /\ avgline # <<>>
    /\ reqC = 2

\* stats() is in its loop
Collecting == spc \in {"choose", "handle"}

\* C11: stats() calls chsend(stop_ch) exactly once on every path out of its
\* loop (stop received, or choose() failed), whether or not it collected a
\* result, and only after the summary step; it sends no acknowledgment while
\* it is in its loop and none after the first.
C11_OneAckAfterFinal ==
    [][ /\ (spc' = "send_ack" /\ spc # "send_ack") =>
              (spc = "final" /\ (nrequests > 0 => avgline' # <<>>))
        /\ (Collecting /\ ~Collecting') => (spc' = "final" \/ mpc = "hclose_stats")
        /\ spc = "final" => (spc' \in {"final", "send_ack"} \/ mpc = "hclose_stats")
        /\ spc = "send_ack" => spc' \in {"send_ack", "end"}
        /\ spc = "end" => (spc' = "end" /\ xfer'.ack = xfer.ack)
        /\ xfer'.ack # xfer.ack =>
              (spc = "send_ack" /\ spc' = "end" /\ xfer.ack = 0 /\ xfer'.ack = 1)
      ]_vars

\* stats() left its loop because choose() failed, collected nothing, and is
\* in its one chsend(stop_ch)
C11_Witness ==
    /\ spc = "send_ack"
    /\ stop = 0
    /\ faults = 1
    /\ nrequests = 0
    /\ xfer.ack = 0

\* the boom() coroutines main starts, and the loop count each is given
Started == {w \in Workers : wpc[w] # "none"}
Assigned == reqN \div reqC

\* C12: each boom() runs its loop exactly its assigned count, whatever fails
\* in an iteration, and calls chsend(done_ch) once, after the last iteration;
\* after that it makes no request and publishes no result.
C12_FixedLoopThenOneDone ==
    /\ [](ValidConfig =>
            \A w \in Started :
               /\ wpc[w] = "request" => (wi[w] > 0 /\ made[w] = Assigned - wi[w])
               /\ wpc[w] = "send_stats" => (wi[w] > 0 /\ made[w] = Assigned - wi[w] + 1)
               /\ wpc[w] \in {"send_done", "end"} => (wi[w] = 0 /\ made[w] = Assigned))
    /\ [][ /\ \A w \in Workers :
                /\ wpc[w] = "send_done" => wpc'[w] \in {"send_done", "end"}
                /\ wpc[w] = "end" => wpc'[w] = "end"
                /\ wpc[w] \in {"send_done", "end"} => made'[w] = made[w]
           /\ xfer'.done # xfer.done =>
                /\ xfer'.done = xfer.done + 1
                /\ \E w \in Workers :
                      /\ wpc[w] = "send_done" /\ wpc'[w] = "end"
                      /\ \A v \in Workers \ {w} : wpc'[v] = wpc[v]
           /\ xfer'.stats # xfer.stats =>
                \E w \in Workers : wpc[w] = "send_stats" /\ wpc'[w] # "send_stats"
         ]_vars

\* a boom() given three requests has ended after one failed request and one
\* failed chsend(stats_ch), its completion signal delivered
C12_Witness ==
    /\ reqN = 3 /\ reqC = 1
    /\ wpc[1] = "end"
    /\ made[1] = 3
    /\ okcnt = 2
    /\ faults = 1
    /\ xfer.stats = 1
    /\ xfer.done = 1

\* a step in which a MakeRequest() call returns non-zero
FailedRequest == made' # made /\ okcnt' = okcnt

\* C13: a failed MakeRequest() puts nothing on stats_ch and changes no
\* statistic; the boom() goes on with its remaining iterations, and the run
\* still ends with exit(EXIT_SUCCESS).
C13_FailedRequestIsSkipped ==
    /\ [][FailedRequest =>
            /\ UNCHANGED <<nrequests, total, recvd, xfer, echoed, avgline, spc, rs>>
            /\ \A w \in Workers :
                  made'[w] # made[w] =>
                     /\ wi'[w] = wi[w] - 1
                     /\ wpc'[w] = IF wi[w] > 1 THEN "request" ELSE "send_done"
         ]_vars
    /\ [](/\ xfer.stats <= okcnt
          /\ \A w \in Workers : wpc[w] = "send_stats" => wrs[w] \in Results)
    /\ ((ValidConfig /\ okcnt < Attempted) ~> ExitedOk)

\* a run of three requests, one of which failed, has exited normally
\* with two results counted
C13_Witness ==
    /\ ExitedOk
    /\ reqN = 3 /\ reqC = 1
    /\ made[1] = 3
    /\ okcnt = 2
    /\ nrequests = 2
    /\ xfer.stats = 2
    /\ avgline # <<>>

\* a boom() is in chsend(stats_ch), waiting for its receiver
Sending(w) == wpc[w] = "send_stats"

\* C14: stats() is started before any boom(); whenever a boom() is in
\* chsend(stats_ch), stats() has been started; until main has sent stop,
\* stats() is in its loop; and every chsend(stats_ch) is completed by a
\* rendezvous with stats().
C14_StatsListensBeforeAnySend ==
    /\ [](/\ (Started # {} => spc # "none")
          /\ \A w \in Workers : Sending(w) => spc # "none"
          /\ (spc # "none" /\ xfer.stop = 0) => Collecting)
    /\ [][\A w \in Workers :
             (Sending(w) /\ ~Sending(w)') =>
                (xfer'.stats = xfer.stats + 1 /\ spc = "choose" /\ spc' = "handle")
         ]_vars
    /\ \A w \in Workers : Sending(w) ~> ~Sending(w)

\* two boom() coroutines are both in chsend(stats_ch) while stats() still
\* handles an earlier result, and stop has not been sent
C14_Witness ==
    /\ Sending(1) /\ Sending(2)
    /\ spc = "handle"
    /\ xfer.stats = 1
    /\ xfer.stop = 0
    /\ mpc = "barrier"

\* main is in chsend(stop_ch), or that send has been received
StopOffered == mpc = "send_stop" \/ xfer.stop > 0

\* C15: stats() handles results until it receives stop and takes nothing from
\* stats_ch afterwards; once main offers stop no boom() is in
\* chsend(stats_ch), so the two clauses of choose() are never ready together.
C15_NoResultAfterStop ==
    /\ [](/\ StopOffered => \A w \in Workers : ~Sending(w)
          /\ ~(mpc = "send_stop" /\ spc = "choose" /\ \E w \in Workers : Sending(w))
          /\ stop # 0 => (~Collecting /\ nrequests = xfer.stats))
    /\ [][stop # 0 =>
            UNCHANGED <<nrequests, total, rs, recvd, echoed>> /\ xfer'.stats = xfer.stats
         ]_vars
    /\ [][xfer'.stop # xfer.stop => (stop = 0 /\ stop' # 0 /\ spc = "choose")]_vars

\* main is already in chsend(stop_ch) while stats() still handles the last
\* of three results
C15_Witness ==
    /\ mpc = "send_stop"
    /\ spc = "handle"
    /\ xfer.stats = 3
    /\ nrequests = 2
    /\ stop = 0

\* some boom() has returned after a chsend(done_ch) that failed: more
\* coroutines have ended than signals were received
Ended == {w \in Workers : wpc[w] = "end"}
DoneLost == Cardinality(Ended) > xfer.done

\* C16: a boom() whose chsend(done_ch) fails still returns, and from then on
\* main never leaves the loop of chrecv(done_ch): it has fewer than C signals,
\* never sends stop and never exits normally; when nothing else fails it is
\* in (or on its way into) that loop for ever and no summary is printed.
C16_LostDoneBlocksBarrier ==
    /\ [](DoneLost =>
            /\ xfer.done < reqC
            /\ mpc \in {"go_boom", "join", "barrier"}
                  \/ (mpc = "exited" /\ exitcode = <<EXIT_FAILURE>>)
            /\ mpc = "barrier" => BarrierMore(mi)
            /\ xfer.stop = 0 /\ stop = 0
            /\ ~ExitedOk
            /\ faults = 1 => (mpc # "exited" /\ avgline = <<>> /\ Collecting))
    /\ [][DoneLost => DoneLost']_vars
    /\ [][\A w \in Workers :
             (wpc[w] = "send_done" /\ wpc'[w] # "send_done") => wpc'[w] = "end"]_vars

\* both boom() coroutines have returned, one signal was lost, and main waits
\* in chrecv(done_ch) for a second signal that nobody will send
C16_Witness ==
    /\ reqC = 2
    /\ Ended = {1, 2}
    /\ xfer.done = 1
    /\ mpc = "barrier"
    /\ mi = 1
    /\ spc = "choose"
    /\ faults = 1

\* a step of stats() that finishes the handling of one received result
ResultEvent == spc = "handle" /\ spc' # "handle"

\* C17: nrequests and total change only when stats() handles a received
\* result, which adds 1 to nrequests and exactly the result's latency to
\* total; the receipt of stop and every step of main and of the boom()
\* coroutines leave both unchanged.
C17_StatsChangeOnlyOnResult ==
    [][ /\ ResultEvent =>
              /\ nrequests' = nrequests + 1
              /\ total' = BigAdd(total, rs.tm)
        /\ ~ResultEvent => UNCHANGED <<nrequests, total>>
        /\ xfer'.stop # xfer.stop => UNCHANGED <<nrequests, total>>
        /\ (mpc' # mpc \/ wpc' # wpc) => UNCHANGED <<nrequests, total>>
      ]_vars

\* the exact sum of the latencies of the first n results stats() received
RECURSIVE LatencySum(_, _)
LatencySum(q, n) == IF n = 0 THEN UZero ELSE BigAdd(LatencySum(q, n - 1), q[n].tm)

\* C18: total is always the exact sum of the latencies of the results handled
\* so far: the accumulation never wraps modulo 2^32.
C18_TotalIsExactSum ==
    /\ nrequests <= Len(recvd)
    /\ total = LatencySum(recvd, nrequests)

\* main and stats() are both in chsend(stop_ch), with nobody to receive
CrossedSends == Alive /\ mpc = "send_stop" /\ spc = "send_ack"

\* a boom() is in chsend(stats_ch) after stats() has left its loop
OrphanSend == Alive /\ ~Collecting /\ \E w \in Workers : Sending(w)

\* C19: stop_ch carries stop to stats() and the acknowledgment to main, each
\* once and in that order; main and stats() are never both in
\* chsend(stop_ch), and no boom() is in chsend(stats_ch) once stats() has
\* left its loop, also when choose() fails.
C19_StopChannelNeverCrossed ==
    /\ xfer.stop <= 1 /\ xfer.ack <= xfer.stop
    /\ xfer.stop = 1 => stop # 0
    /\ xfer.ack = 1 => (spc = "end" /\ mpc \notin {"barrier", "send_stop", "recv_ack"})
    /\ ~CrossedSends
    /\ ~OrphanSend

\* main is at or past its first hclose()
InTeardown == mpc \in {"hclose_boom", "hclose_stats", "hclose_ch", "exit"} \/ ExitedOk

\* C20: when main starts its hclose() calls in a run without channel
\* failures, every one of the C boom() coroutines has delivered its
\* completion signal and has no iteration left, stats() has delivered its
\* acknowledgment and returned, every result sent was received and handled,
\* and the hclose() calls change nothing in any coroutine.
C20_TeardownIsQuiescent ==
    /\ [](InTeardown =>
            /\ Started = 1 .. reqC
            /\ Ended = Started
            /\ \A w \in Started : ~BoomMore(wi[w]) /\ (ValidConfig => made[w] = Assigned)
            /\ xfer.done = reqC
            /\ spc = "end" /\ stop # 0
            /\ xfer.stop = 1 /\ xfer.ack = 1
            /\ xfer.stats = okcnt /\ nrequests = okcnt /\ Len(recvd) = okcnt
            /\ ~BarrierMore(mi))
    /\ [][InTeardown => UNCHANGED <<boomv, statsv, xfer, recvd>>]_vars

\* main is at its first hclose() with both boom() coroutines returned and
\* stats() returned after the acknowledgment
C20_Witness ==
    /\ mpc = "hclose_boom"
    /\ closed = {}
    /\ reqN = 2 /\ reqC = 2
    /\ Ended = {1, 2}
    /\ xfer.done = 2
    /\ spc = "end"
    /\ xfer.ack = 1
    /\ nrequests = 1

====
